---- MODULE Spec2Model ----
(***************************************************************************)
(* Model of flashlight-tensor's matrix layer (src/cpu/subtypes/matrix.rs). *)
(*                                                                         *)
(* A Tensor is a record [shape, data]: shape is the sequence of dimension  *)
(* sizes (u32), data the flat row-major buffer.  Rust indices are 0-based; *)
(* At(s, i) reads the element the code writes s[i].                        *)
(*                                                                         *)
(* Every operation is a pure function of its receiver and arguments.  An   *)
(* operation's outcome is None, Some(v) or Panic (the process aborts: an   *)
(* out-of-range index or slice, an unwrap of None, or an integer overflow  *)
(* in a build with overflow checks).                                       *)
(*                                                                         *)
(* Elements are modelled as exact integers (the element type T is generic  *)
(* in the source); T::default() is 0.  Within the bounds below every u32   *)
(* index expression stays far below 2^32, so the only integer overflow the *)
(* model can reach is the usize subtraction in Tensor::matrix.             *)
(***************************************************************************)
EXTENDS Integers, Sequences, FiniteSets, TLC

\* ------------------------------------------------------------------ bounds
\* Dimension sizes range over 0..MaxDim, ranks over 1..MaxRank, and a
\* tensor's buffer holds at most MaxLen elements.
MaxDim == 3
MaxRank == 3
MaxLen == 9

\* ----------------------------------------------------------------- options
None == [kind |-> "None"]
Panic == [kind |-> "Panic"]
Some(v) == [kind |-> "Some", val |-> v]

IsSome(o) == o.kind = "Some"

\* s[i] with a 0-based index
At(s, i) == s[i + 1]

\* s[a..b] with 0-based, half-open bounds (the caller checks a <= b <= Len(s))
Slice(s, a, b) == SubSeq(s, a + 1, b)

RECURSIVE Product(_)
Product(s) == IF s = <<>> THEN 1 ELSE Head(s) * Product(Tail(s))

\* ------------------------------------------------ external collaborators
\* Tensor::from_data: a tensor, or None when the data length is not the
\* product of the sizes.
from_data(data, sizes) ==
    IF Len(data) = Product(sizes)
    THEN Some([shape |-> sizes, data |-> data])
    ELSE None

RECURSIVE FlatIndex(_, _, _, _)
FlatIndex(shape, idx, k, acc) ==
    IF k > Len(shape) THEN acc
    ELSE FlatIndex(shape, idx, k + 1, acc * shape[k] + idx[k])

\* Tensor::value: the element at a full index, or None when the index has the
\* wrong length or a component is out of bounds.
value(t, idx) ==
    IF Len(idx) # Len(t.shape) THEN None
    ELSE IF \E k \in 1..Len(idx) : idx[k] >= t.shape[k] THEN None
    ELSE Some(t.data[FlatIndex(t.shape, idx, 1, 0) + 1])

\* Tensor::set_shape: reinterprets the buffer under another shape.
set_shape(t, sizes) == [t EXCEPT !.shape = sizes]

RECURSIVE DotLoop(_, _, _, _)
DotLoop(a, b, i, acc) ==
    IF i >= Len(a) THEN acc
    ELSE DotLoop(a, b, i + 1, acc + At(a, i) * At(b, i))

\* Tensor::dot_product on rank-1 tensors: None when the lengths differ.
dot_product(a, b) ==
    IF Len(a.data) # Len(b.data) THEN None
    ELSE Some(DotLoop(a.data, b.data, 0, 0))

\* ------------------------------------------------------------- extractors
\* The offset loop of Tensor::matrix (lines 38-41):
\*   data_begin += pos[pos.len() - 1 - i] * stride; stride *= shape[2 + i]
RECURSIVE MatrixOffset(_, _, _, _, _)
MatrixOffset(shape, pos, i, data_begin, stride) ==
    IF i >= Len(pos) THEN data_begin
    ELSE MatrixOffset(shape, pos, i + 1,
                      data_begin + At(pos, Len(pos) - 1 - i) * stride,
                      stride * At(shape, 2 + i))

\* Tensor::matrix.  self_dimensions - selector_dimensions is a usize
\* subtraction: when the selector is longer than the shape it panics in a
\* build with overflow checks and wraps to a value near 2^64 (never 2)
\* otherwise.
matrix(self, pos, overflow_checks) ==
    LET self_dimensions == Len(self.shape)
        selector_dimensions == Len(pos)
    IN  IF self_dimensions < selector_dimensions
        THEN (IF overflow_checks THEN Panic ELSE None)
        ELSE IF self_dimensions - selector_dimensions # 2 THEN None
        ELSE IF \E i \in 0..(Len(pos) - 1) : At(pos, i) >= At(self.shape, i)
        THEN None
        ELSE LET data_begin == MatrixOffset(self.shape, pos, 0, 0, At(self.shape, 1))
                 sizes == Slice(self.shape, self_dimensions - 2, self_dimensions)
                 prod == Product(sizes)
                 data_end == data_begin + prod
             IN  IF data_begin > data_end \/ data_end > Len(self.data)
                 THEN Panic
                 ELSE from_data(Slice(self.data, data_begin, data_end), sizes)

\* matrix_row with the row index used as the offset (row not scaled by the
\* row size)
matrix_row_unscaled(self, row) ==
    IF Len(self.shape) # 2 THEN None
    ELSE IF row >= At(self.shape, 0) THEN None
    ELSE LET row_size == At(self.shape, 1)
             data_begin == row
             data_end == data_begin + row_size
         IN  IF data_end > Len(self.data)
             THEN Panic
             ELSE from_data(Slice(self.data, data_begin, data_end), <<1, row_size>>)

\* Tensor::matrix_row
matrix_row(self, row) ==
    IF Len(self.shape) # 2 THEN None
    ELSE IF row >= At(self.shape, 0) THEN None
    ELSE LET row_size == At(self.shape, 1)
             data_begin == row * row_size
             data_end == data_begin + row_size
         IN  IF data_end > Len(self.data)
             THEN Panic
             ELSE from_data(Slice(self.data, data_begin, data_end), <<1, row_size>>)

\* The gather loop of Tensor::matrix_col (lines 120-122):
\*   for i in (col..data.len()).step_by(row_size)
RECURSIVE ColLoop(_, _, _, _)
ColLoop(data, i, row_size, return_vector) ==
    IF i >= Len(data) THEN return_vector
    ELSE ColLoop(data, i + row_size, row_size, Append(return_vector, At(data, i)))

\* matrix_col copying contiguously (step 1 instead of the row size)
matrix_col_contiguous(self, col) ==
    IF Len(self.shape) # 2 THEN None
    ELSE IF col >= At(self.shape, 1) THEN None
    ELSE from_data(ColLoop(self.data, col, 1, <<>>), <<At(self.shape, 0), 1>>)

\* Tensor::matrix_col (row_size >= 1 once col < shape[1], so step_by never
\* sees a zero step)
matrix_col(self, col) ==
    IF Len(self.shape) # 2 THEN None
    ELSE IF col >= At(self.shape, 1) THEN None
    ELSE LET row_size == At(self.shape, 1)
             return_vector == ColLoop(self.data, col, row_size, <<>>)
         IN  from_data(return_vector, <<At(self.shape, 0), 1>>)

\* -------------------------------------------------------------- transpose
\* The loops of Tensor::matrix_transpose (lines 156-160): for each column,
\* for each row, push value(&[row, collumn]).unwrap().
RECURSIVE TransposeLoop(_, _, _, _)
TransposeLoop(self, collumn, row, return_data) ==
    IF collumn >= At(self.shape, 1) THEN Some(return_data)
    ELSE IF row >= At(self.shape, 0)
    THEN TransposeLoop(self, collumn + 1, 0, return_data)
    ELSE LET v == value(self, <<row, collumn>>)
         IN  IF ~IsSome(v) THEN Panic
             ELSE TransposeLoop(self, collumn, row + 1, Append(return_data, v.val))

\* new_sizes.reverse()
RECURSIVE Reverse(_)
Reverse(s) == IF s = <<>> THEN <<>> ELSE Append(Reverse(Tail(s)), Head(s))

\* matrix_transpose reversing the shape but leaving the buffer in its order
matrix_transpose_shape_only(self) ==
    IF Len(self.shape) # 2 THEN None
    ELSE from_data(self.data, Reverse(self.shape))

\* Tensor::matrix_transpose: Some(from_data(..).unwrap())
matrix_transpose(self) ==
    IF Len(self.shape) # 2 THEN None
    ELSE LET new_sizes == Reverse(self.shape)
             return_data == TransposeLoop(self, 0, 0, <<>>)
         IN  IF ~IsSome(return_data) THEN Panic
             ELSE LET built == from_data(return_data.val, new_sizes)
                  IN  IF IsSome(built) THEN built ELSE Panic

\* -------------------------------------------------------------- formatter
\* The loops of Tensor::matrix_to_string (lines 194-206).  The string is kept
\* as the sequence of the pieces pushed onto it; format!("{}", v) is
\* ToString(v).  shape[1] - 1 and shape[0] - 1 are evaluated only inside the
\* loops, where the dimension is at least 1.
RECURSIVE ToStringCols(_, _, _, _)
ToStringCols(self, i, j, return_string) ==
    IF j >= At(self.shape, 1) THEN Some(return_string)
    ELSE LET v == value(self, <<i, j>>)
         IN  IF ~IsSome(v) THEN Panic
             ELSE LET shown == Append(return_string, ToString(v.val))
                  IN  ToStringCols(self, i, j + 1,
                                   IF j # At(self.shape, 1) - 1
                                   THEN Append(shown, ", ")
                                   ELSE shown)

RECURSIVE ToStringRows(_, _, _)
ToStringRows(self, i, return_string) ==
    IF i >= At(self.shape, 0) THEN Some(return_string)
    ELSE LET cols == ToStringCols(self, i, 0, Append(return_string, "|"))
         IN  IF ~IsSome(cols) THEN Panic
             ELSE LET closed == Append(cols.val, "|")
                  IN  ToStringRows(self, i + 1,
                                   IF i # At(self.shape, 0) - 1
                                   THEN Append(closed, "\n")
                                   ELSE closed)

\* Tensor::matrix_to_string
matrix_to_string(self) ==
    IF Len(self.shape) # 2 THEN None
    ELSE ToStringRows(self, 0, <<>>)

\* --------------------------------------------------------- multiplication
\* The loops of Tensor::matrix_mul (lines 247-257): each entry is
\* matrix_row(i).unwrap() . matrix_col(j).unwrap(), both reshaped to rank 1,
\* through dot_product(..).unwrap().
RECURSIVE MulLoop(_, _, _, _, _)
MulLoop(self, other, i, j, return_data) ==
    IF i >= At(self.shape, 0) THEN Some(return_data)
    ELSE IF j >= At(other.shape, 1)
    THEN MulLoop(self, other, i + 1, 0, return_data)
    ELSE LET row_opt == matrix_row(self, i)
             col_opt == matrix_col(other, j)
         IN  IF ~IsSome(row_opt) \/ ~IsSome(col_opt) THEN Panic
             ELSE LET mat1_row == set_shape(row_opt.val, <<Len(row_opt.val.data)>>)
                      mat2_col == set_shape(col_opt.val, <<Len(col_opt.val.data)>>)
                      dot == dot_product(mat1_row, mat2_col)
                  IN  IF ~IsSome(dot) THEN Panic
                      ELSE MulLoop(self, other, i, j + 1, Append(return_data, dot.val))

\* matrix_mul comparing the wrong pair of dimensions (rows of the left with
\* columns of the right)
matrix_mul_wrong_dims(self, other) ==
    IF Len(self.shape) # 2 THEN None
    ELSE IF Len(self.shape) # Len(other.shape) THEN None
    ELSE IF At(self.shape, 0) # At(other.shape, 1) THEN None
    ELSE LET return_data == MulLoop(self, other, 0, 0, <<>>)
             sizes == <<At(self.shape, 0), At(other.shape, 1)>>
         IN  IF ~IsSome(return_data) THEN Panic
             ELSE from_data(return_data.val, sizes)

\* Tensor::matrix_mul
matrix_mul(self, other) ==
    IF Len(self.shape) # 2 THEN None
    ELSE IF Len(self.shape) # Len(other.shape) THEN None
    ELSE IF At(self.shape, 1) # At(other.shape, 0) THEN None
    ELSE LET return_data == MulLoop(self, other, 0, 0, <<>>)
             sizes == <<At(self.shape, 0), At(other.shape, 1)>>
         IN  IF ~IsSome(return_data) THEN Panic
             ELSE from_data(return_data.val, sizes)

\* -------------------------------------------------------------- reductions
\* Each inner loop reads data[(row * sizes[1] + col) as usize]; an index past
\* the buffer panics.

\* Inner loop of Tensor::matrix_col_sum (lines 298-300)
RECURSIVE ColSumInner(_, _, _, _)
ColSumInner(self, row, col, acc) ==
    IF col >= At(self.shape, 1) THEN Some(acc)
    ELSE LET at == row * At(self.shape, 1) + col
         IN  IF at >= Len(self.data) THEN Panic
             ELSE ColSumInner(self, row, col + 1, acc + At(self.data, at))

\* matrix_col_sum's outer loop with the inner loop started at column 1
RECURSIVE ColSumLoopFromOne(_, _, _)
ColSumLoopFromOne(self, row, new_data) ==
    IF row >= At(self.shape, 0) THEN Some(new_data)
    ELSE LET v == ColSumInner(self, row, 1, 0)
         IN  IF ~IsSome(v) THEN Panic
             ELSE ColSumLoopFromOne(self, row + 1, Append(new_data, v.val))

\* Outer loop of Tensor::matrix_col_sum (lines 296-302): T::default() is 0.
RECURSIVE ColSumLoop(_, _, _)
ColSumLoop(self, row, new_data) ==
    IF row >= At(self.shape, 0) THEN Some(new_data)
    ELSE LET v == ColSumInner(self, row, 0, 0)
         IN  IF ~IsSome(v) THEN Panic
             ELSE ColSumLoop(self, row + 1, Append(new_data, v.val))

\* Tensor::matrix_col_sum
matrix_col_sum(self) ==
    IF Len(self.shape) # 2 THEN None
    ELSE LET new_data == ColSumLoop(self, 0, <<>>)
         IN  IF ~IsSome(new_data) THEN Panic
             ELSE from_data(new_data.val, <<At(self.shape, 0), 1>>)

\* Inner loop of Tensor::matrix_row_sum (lines 336-338)
RECURSIVE RowSumInner(_, _, _, _)
RowSumInner(self, row, col, acc) ==
    IF row >= At(self.shape, 0) THEN Some(acc)
    ELSE LET at == row * At(self.shape, 1) + col
         IN  IF at >= Len(self.data) THEN Panic
             ELSE RowSumInner(self, row + 1, col, acc + At(self.data, at))

\* Outer loop of Tensor::matrix_row_sum (lines 334-340)
RECURSIVE RowSumLoop(_, _, _)
RowSumLoop(self, col, new_data) ==
    IF col >= At(self.shape, 1) THEN Some(new_data)
    ELSE LET v == RowSumInner(self, 0, col, 0)
         IN  IF ~IsSome(v) THEN Panic
             ELSE RowSumLoop(self, col + 1, Append(new_data, v.val))

\* Tensor::matrix_row_sum
matrix_row_sum(self) ==
    IF Len(self.shape) # 2 THEN None
    ELSE LET new_data == RowSumLoop(self, 0, <<>>)
         IN  IF ~IsSome(new_data) THEN Panic
             ELSE from_data(new_data.val, <<1, At(self.shape, 1)>>)

\* Inner loop of Tensor::matrix_col_prod (lines 379-381)
RECURSIVE ColProdInner(_, _, _, _)
ColProdInner(self, row, col, acc) ==
    IF col >= At(self.shape, 1) THEN Some(acc)
    ELSE LET at == row * At(self.shape, 1) + col
         IN  IF at >= Len(self.data) THEN Panic
             ELSE ColProdInner(self, row, col + 1, acc * At(self.data, at))

\* matrix_col_prod's outer loop seeded like the sums: T::default(), then
\* every column
RECURSIVE ColProdLoopDefaultSeed(_, _, _)
ColProdLoopDefaultSeed(self, row, new_data) ==
    IF row >= At(self.shape, 0) THEN Some(new_data)
    ELSE LET v == ColProdInner(self, row, 0, 0)
         IN  IF ~IsSome(v) THEN Panic
             ELSE ColProdLoopDefaultSeed(self, row + 1, Append(new_data, v.val))

\* Outer loop of Tensor::matrix_col_prod (lines 377-383): the accumulator
\* starts as data[row * sizes[1]] and the inner loop runs from column 1.
RECURSIVE ColProdLoop(_, _, _)
ColProdLoop(self, row, new_data) ==
    IF row >= At(self.shape, 0) THEN Some(new_data)
    ELSE LET first == row * At(self.shape, 1)
         IN  IF first >= Len(self.data) THEN Panic
             ELSE LET v == ColProdInner(self, row, 1, At(self.data, first))
                  IN  IF ~IsSome(v) THEN Panic
                      ELSE ColProdLoop(self, row + 1, Append(new_data, v.val))

\* Tensor::matrix_col_prod
matrix_col_prod(self) ==
    IF Len(self.shape) # 2 THEN None
    ELSE LET new_data == ColProdLoop(self, 0, <<>>)
         IN  IF ~IsSome(new_data) THEN Panic
             ELSE from_data(new_data.val, <<At(self.shape, 0), 1>>)

\* Inner loop of Tensor::matrix_row_prod (lines 417-419)
RECURSIVE RowProdInner(_, _, _, _)
RowProdInner(self, row, col, acc) ==
    IF row >= At(self.shape, 0) THEN Some(acc)
    ELSE LET at == row * At(self.shape, 1) + col
         IN  IF at >= Len(self.data) THEN Panic
             ELSE RowProdInner(self, row + 1, col, acc * At(self.data, at))

\* Outer loop of Tensor::matrix_row_prod (lines 415-421): the accumulator
\* starts as data[col] and the inner loop runs from row 1.
RECURSIVE RowProdLoop(_, _, _)
RowProdLoop(self, col, new_data) ==
    IF col >= At(self.shape, 1) THEN Some(new_data)
    ELSE IF col >= Len(self.data) THEN Panic
    ELSE LET v == RowProdInner(self, 1, col, At(self.data, col))
         IN  IF ~IsSome(v) THEN Panic
             ELSE RowProdLoop(self, col + 1, Append(new_data, v.val))

\* matrix_row_prod rejecting only ranks below 2
matrix_row_prod_min_rank(self) ==
    IF Len(self.shape) < 2 THEN None
    ELSE LET new_data == RowProdLoop(self, 0, <<>>)
         IN  IF ~IsSome(new_data) THEN Panic
             ELSE from_data(new_data.val, <<1, At(self.shape, 1)>>)

\* Tensor::matrix_row_prod
matrix_row_prod(self) ==
    IF Len(self.shape) # 2 THEN None
    ELSE LET new_data == RowProdLoop(self, 0, <<>>)
         IN  IF ~IsSome(new_data) THEN Panic
             ELSE from_data(new_data.val, <<1, At(self.shape, 1)>>)

\* ------------------------------------------------------------------ state
VARIABLES
    self,             \* the receiver, as Tensor::from_data built it
    overflow_checks,  \* whether the build panics on integer overflow
    op,               \* the operation called on it ("from_data": none yet)
    pos,              \* the selector argument (matrix)
    index,            \* the row / column argument (matrix_row, matrix_col)
    tens2,            \* the right operand (matrix_mul)
    outcome           \* what the operation returned, or Panic

vars == <<self, overflow_checks, op, pos, index, tens2, outcome>>

RECURSIVE SeqsOver(_, _)
SeqsOver(S, n) ==
    IF n = 0 THEN {<<>>}
    ELSE {Append(s, x) : s \in SeqsOver(S, n - 1), x \in S}

Shapes ==
    {s \in UNION {SeqsOver(0..MaxDim, r) : r \in 1..MaxRank} : Product(s) <= MaxLen}

\* Buffers of a given length: 1, 2, .., n (the data of the doc tests) and
\* -1, 0, 1, .., n - 2 (a zero and a negative element).
Offsets == {0, -2}
Buffers(n) == {[i \in 1..n |-> i + d] : d \in Offsets}

Tensors ==
    UNION {{[shape |-> s, data |-> b] : b \in Buffers(Product(s))} : s \in Shapes}

\* Selectors: up to MaxRank - 1 components, so that a selector can be longer
\* than a receiver's shape; a component MaxDim is out of bounds everywhere.
Selectors == UNION {SeqsOver(0..MaxDim, n) : n \in 0..(MaxRank - 1)}

Init ==
    /\ \E s \in Shapes : \E b \in Buffers(Product(s)) :
         /\ outcome = from_data(b, s)
         /\ self = outcome.val
    /\ overflow_checks \in BOOLEAN
    /\ op = "from_data"
    /\ pos = <<>>
    /\ index = 0
    /\ tens2 = self

\* The operations are pure and leave the receiver alone, so a behaviour is
\* one construction followed by one call.
Built == op = "from_data"

Call(name, p, i, t, result) ==
    /\ Built
    /\ op' = name
    /\ pos' = p
    /\ index' = i
    /\ tens2' = t
    /\ outcome' = result
    /\ UNCHANGED <<self, overflow_checks>>

Matrix ==
    \E p \in Selectors : Call("matrix", p, 0, self, matrix(self, p, overflow_checks))

MatrixRow ==
    \E row \in 0..MaxDim : Call("matrix_row", <<>>, row, self, matrix_row(self, row))

MatrixCol ==
    \E col \in 0..MaxDim : Call("matrix_col", <<>>, col, self, matrix_col(self, col))

MatrixTranspose ==
    Call("matrix_transpose", <<>>, 0, self, matrix_transpose(self))

MatrixToString ==
    Call("matrix_to_string", <<>>, 0, self, matrix_to_string(self))

\* matrix_mul returns at line 237 without reading its argument when the
\* receiver is not of rank 2, so for such a receiver one right operand of
\* each rank stands for all of them; a rank-2 receiver meets every tensor.
RankSamples ==
    {[shape |-> [k \in 1..r |-> 1], data |-> <<1>>] : r \in 1..MaxRank}

MulOperands(t) == IF Len(t.shape) # 2 THEN RankSamples ELSE Tensors

MatrixMul ==
    \E t \in MulOperands(self) : Call("matrix_mul", <<>>, 0, t, matrix_mul(self, t))

MatrixColSum ==
    Call("matrix_col_sum", <<>>, 0, self, matrix_col_sum(self))

MatrixRowSum ==
    Call("matrix_row_sum", <<>>, 0, self, matrix_row_sum(self))

MatrixColProd ==
    Call("matrix_col_prod", <<>>, 0, self, matrix_col_prod(self))

MatrixRowProd ==
    Call("matrix_row_prod", <<>>, 0, self, matrix_row_prod(self))

Next ==
    \/ Matrix
    \/ MatrixRow
    \/ MatrixCol
    \/ MatrixTranspose
    \/ MatrixToString
    \/ MatrixMul
    \/ MatrixColSum
    \/ MatrixRowSum
    \/ MatrixColProd
    \/ MatrixRowProd

Spec == Init /\ [][Next]_vars

\* ------------------------------------------------- reference definitions
\* What the properties below compare the outcomes against: the row-major
\* meaning of a shape, written without the code's loops.
Rank(t) == Len(t.shape)
Rows(t) == t.shape[1]
Cols(t) == t.shape[2]

\* Element (i, j) of a rank-2 tensor, 0-based
Elem2(t, i, j) == t.data[i * Cols(t) + j + 1]

\* Row-major offset of a full index: each component times the product of the
\* sizes of the dimensions after it
RECURSIVE RefOffset(_, _)
RefOffset(shape, idx) ==
    IF idx = <<>> THEN 0
    ELSE Head(idx) * Product(Tail(shape)) + RefOffset(Tail(shape), Tail(idx))

ElemN(t, idx) == t.data[RefOffset(t.shape, idx) + 1]

RECURSIVE SeqSum(_)
SeqSum(s) == IF s = <<>> THEN 0 ELSE Head(s) + SeqSum(Tail(s))

RowOf(t, i) == [j \in 1..Cols(t) |-> Elem2(t, i, j - 1)]
ColOf(t, j) == [i \in 1..Rows(t) |-> Elem2(t, i - 1, j)]

Returned == outcome.kind \in {"Some", "None"}

\* --------------------------------------------------------------- C1, C3
ValidSelector ==
    /\ Rank(self) >= 2
    /\ Len(pos) = Rank(self) - 2
    /\ \A k \in 1..Len(pos) : pos[k] < self.shape[k]

\* C1: for a tensor of rank R >= 2 and a selector of length R - 2 within the
\* leading dimensions, matrix returns a tensor whose shape is the last two
\* dimensions and whose element (i, j) is the receiver's element at
\* (selector, i, j).
C1_MatrixReturnsSlab ==
    (op = "matrix" /\ ValidSelector) =>
        /\ IsSome(outcome)
        /\ outcome.val.shape = SubSeq(self.shape, Rank(self) - 1, Rank(self))
        /\ Len(outcome.val.data) = Product(outcome.val.shape)
        /\ \A i \in 0..(self.shape[Rank(self) - 1] - 1) :
             \A j \in 0..(self.shape[Rank(self)] - 1) :
                Elem2(outcome.val, i, j) = ElemN(self, pos \o <<i, j>>)

\* C3: matrix returns None exactly when rank - len(pos) is not 2 or some
\* selector component is out of bounds, never aborts (a selector longer than
\* the rank included), and returns a tensor in every other case.
C3_MatrixNoneExactly ==
    op = "matrix" =>
        /\ Returned
        /\ outcome = None <=> ~ValidSelector

\* ------------------------------------------------------------------- C2
DotRef(a, b, i, j) ==
    SeqSum([k \in 1..Cols(a) |-> Elem2(a, i, k - 1) * Elem2(b, k - 1, j)])

\* C2: for rank-2 operands matrix_mul returns a result iff the left column
\* count equals the right row count; the result has shape [r1, c2] and its
\* element (i, j) is the sum over k of A(i, k) * B(k, j).  Data 1..6 as
\* [3, 2] times data 1..6 as [2, 3] is [9,12,15,19,26,33,29,40,51] as [3, 3].
C2_MatrixMulProduct ==
    (op = "matrix_mul" /\ Rank(self) = 2 /\ Rank(tens2) = 2) =>
        /\ Returned
        /\ IsSome(outcome) <=> Cols(self) = Rows(tens2)
        /\ IsSome(outcome) =>
             /\ outcome.val.shape = <<Rows(self), Cols(tens2)>>
             /\ Len(outcome.val.data) = Rows(self) * Cols(tens2)
             /\ \A i \in 0..(Rows(self) - 1) : \A j \in 0..(Cols(tens2) - 1) :
                  Elem2(outcome.val, i, j) = DotRef(self, tens2, i, j)
        /\ (/\ self = [shape |-> <<3, 2>>, data |-> <<1, 2, 3, 4, 5, 6>>]
            /\ tens2 = [shape |-> <<2, 3>>, data |-> <<1, 2, 3, 4, 5, 6>>]) =>
             outcome = Some([shape |-> <<3, 3>>,
                             data |-> <<9, 12, 15, 19, 26, 33, 29, 40, 51>>])

C2_Witness ==
    /\ op = "matrix_mul"
    /\ self = [shape |-> <<3, 2>>, data |-> <<1, 2, 3, 4, 5, 6>>]
    /\ tens2 = [shape |-> <<2, 3>>, data |-> <<1, 2, 3, 4, 5, 6>>]
    /\ IsSome(outcome)

\* ------------------------------------------------------------------- C4
Rank2Ops ==
    {"matrix_row", "matrix_col", "matrix_transpose", "matrix_to_string",
     "matrix_mul", "matrix_col_sum", "matrix_row_sum", "matrix_col_prod",
     "matrix_row_prod"}

\* C4: every operation that requires rank 2 returns None on a receiver of
\* rank 1 or 3, and matrix_mul also on a right operand of rank 1 or 3.
C4_Rank2OpsRejectOtherRanks ==
    /\ (op \in Rank2Ops /\ Rank(self) \in {1, 3}) => outcome = None
    /\ (op = "matrix_mul" /\ Rank(tens2) \in {1, 3}) => outcome = None

C4_Witness ==
    /\ op = "matrix_mul"
    /\ Rank(self) = 2
    /\ Rank(tens2) = 3
    /\ Cols(self) = tens2.shape[1]
    /\ Len(self.data) > 0
    /\ outcome = None

\* --------------------------------------------------------------- C5, C6
\* C5: on a rank-2 tensor of shape [r, c], matrix_col(j) with j < c returns
\* a tensor of shape [r, 1] with exactly r elements, the k-th being element
\* (k, j); with j >= c it returns None.
C5_MatrixColGather ==
    (op = "matrix_col" /\ Rank(self) = 2) =>
        IF index < Cols(self)
        THEN /\ IsSome(outcome)
             /\ outcome.val.shape = <<Rows(self), 1>>
             /\ Len(outcome.val.data) = Rows(self)
             /\ \A k \in 0..(Rows(self) - 1) :
                  outcome.val.data[k + 1] = Elem2(self, k, index)
        ELSE outcome = None

C5_Witness ==
    /\ op = "matrix_col"
    /\ Rank(self) = 2
    /\ Rows(self) >= 3
    /\ Cols(self) >= 2
    /\ index = 1
    /\ IsSome(outcome)

\* C6: on a rank-2 tensor of shape [r, c], matrix_row(i) with i < r returns
\* a tensor of shape [1, c] whose data is data[i*c .. i*c + c]; with i >= r
\* it returns None.
C6_MatrixRowBlock ==
    (op = "matrix_row" /\ Rank(self) = 2) =>
        IF index < Rows(self)
        THEN /\ IsSome(outcome)
             /\ outcome.val.shape = <<1, Cols(self)>>
             /\ outcome.val.data =
                  SubSeq(self.data, index * Cols(self) + 1,
                         index * Cols(self) + Cols(self))
        ELSE outcome = None

C6_Witness ==
    /\ op = "matrix_row"
    /\ Rank(self) = 2
    /\ Rows(self) >= 3
    /\ Cols(self) >= 2
    /\ index = 2
    /\ IsSome(outcome)

\* ------------------------------------------------------------------- C7
\* C7: on a rank-2 tensor of shape [r, c], matrix_transpose returns a tensor
\* of shape [c, r] whose element (j, i) is the receiver's element (i, j), and
\* transposing that result gives back the receiver's shape and data.
C7_TransposeRoundTrip ==
    (op = "matrix_transpose" /\ Rank(self) = 2) =>
        /\ IsSome(outcome)
        /\ outcome.val.shape = <<Cols(self), Rows(self)>>
        /\ Len(outcome.val.data) = Len(self.data)
        /\ \A i \in 0..(Rows(self) - 1) : \A j \in 0..(Cols(self) - 1) :
             Elem2(outcome.val, j, i) = Elem2(self, i, j)
        /\ matrix_transpose(outcome.val) = Some(self)

C7_Witness ==
    /\ op = "matrix_transpose"
    /\ Rank(self) = 2
    /\ Rows(self) = 2
    /\ Cols(self) = 3
    /\ IsSome(outcome)
    /\ outcome.val.data # self.data

\* ------------------------------------------------------------------- C8
Total(t) == SeqSum(t.data)
Single(v) == Some([shape |-> <<1, 1>>, data |-> <<v>>])

\* C8: on a rank-2 tensor of shape [r, c], matrix_col_sum has shape [r, 1]
\* with entry k the sum of row k, matrix_row_sum has shape [1, c] with entry
\* j the sum of column j, and reducing either result along its other axis
\* gives the single value that is the sum of all elements.
C8_SumReductions ==
    /\ (op = "matrix_col_sum" /\ Rank(self) = 2) =>
         /\ IsSome(outcome)
         /\ outcome.val.shape = <<Rows(self), 1>>
         /\ outcome.val.data = [k \in 1..Rows(self) |-> SeqSum(RowOf(self, k - 1))]
         /\ matrix_row_sum(outcome.val) = Single(Total(self))
    /\ (op = "matrix_row_sum" /\ Rank(self) = 2) =>
         /\ IsSome(outcome)
         /\ outcome.val.shape = <<1, Cols(self)>>
         /\ outcome.val.data = [j \in 1..Cols(self) |-> SeqSum(ColOf(self, j - 1))]
         /\ matrix_col_sum(outcome.val) = Single(Total(self))

C8_Witness ==
    /\ op = "matrix_col_sum"
    /\ Rank(self) = 2
    /\ Rows(self) = 3
    /\ Cols(self) = 2
    /\ IsSome(outcome)
    /\ matrix_row_sum(outcome.val) = Single(Total(self))
    /\ Total(self) # 0

C10_Rank2NeverAborts ==
    (op # "from_data" /\ Rank(self) = 2) => Returned
====
